---- MODULE Spec2Model ----
(***************************************************************************)
(* A model of BlockchainAccountIndexing.cpp: the account ledger            *)
(* (AccountIndexer::indexedAccounts), the per-type top-3 ranking           *)
(* (AccountIndexer::highestTokenAccounts), the cancellable callback heap   *)
(* (CallbackManager) and the ingestion loop of                             *)
(* AccountManager::processAccountUpdates.                                  *)
(*                                                                         *)
(* std::push_heap, std::pop_heap and std::priority_queue are modelled as   *)
(* libstdc++ implements them (the Makefile builds with g++): the heap      *)
(* arrays are kept position by position, because the code stores array     *)
(* positions in indexMap and calls the heap algorithms on ranges that are  *)
(* not always heaps of the comparator passed.                              *)
(*                                                                         *)
(* Account::data is never read by the code that is modelled and is left    *)
(* out of the account record.                                              *)
(***************************************************************************)
EXTENDS Integers, Sequences, FiniteSets, TLC

VARIABLES
    indexedAccounts,        \* AccountIndexer::indexedAccounts: <<id, version>> -> Account
    highestTokenAccounts,   \* AccountIndexer::highestTokenAccounts: accountType -> heap array
    callbacks,              \* CallbackManager::callbacks, the live elements [0, size)
    spare,                  \* the destroyed elements behind callbacks.end(), still in the
                            \*   vector's storage (slot size, size+1, ...)
    indexMap,               \* CallbackManager::indexMap: id -> 0-based position
    now,                    \* the last reading of chrono::system_clock::now()
    account,                \* the loop variable of processAccountUpdates (line 235)
    fired,                  \* the "Callback fired" lines of the last fireCallbacks sweep
    crashed,                \* the process was ended by an out-of-range access
    pc,                     \* position in processAccountUpdates: "parse" (the loop of
                            \*   line 230), "ingest" (236) or "fire" (237); inside a call
                            \*   of ingestAccountUpdate taken line by line, the line to
                            \*   run next: "l309", "l310", "l311", "l315", "l317", "l323"
    nUpdates,               \* number of loop iterations started
    outcome,                \* the path the last ingestAccountUpdate took: "rejected" (the
                            \*   return of line 308), "superseded" (lines 309-311 ran),
                            \*   "accepted" (no ranked entry found), "none" outside the call
    evicted,                \* the account popped at line 320 by the last call, or NoAccount
    maxVersion,             \* history: <<id, accountType>> -> highest version received
    superseded,             \* history: the <<id, accountType, version>> of every
                            \*   jt.top() that lines 309-311 removed for a higher version
    filteredAccounts,       \* the last call of searchAndFilterAccounts, its arguments and
                            \*   the vector it returned; NoQuery once an update is processed
    jsonAccounts,           \* the records of the file read by processAccountUpdates (219)
    accountUpdates,         \* the vector of line 229, from the record the loop of line 235
                            \*   is at
    jtTop                   \* jt.top() of lines 307-311 while a superseding call is taken
                            \*   line by line, NoAccount otherwise

vars == <<indexedAccounts, highestTokenAccounts, callbacks, spare, indexMap,
          now, account, fired, crashed, pc, nUpdates, outcome, evicted, maxVersion,
          superseded, filteredAccounts, jsonAccounts, accountUpdates, jtTop>>

(***************************************************************************)
(* Bounds and input sets                                                   *)
(***************************************************************************)
\* number of updates in the input file, in Spec
MaxUpdates == 3
\* number of updates in the input file, in SpecRanking
MaxRankUpdates == 5
\* number of updates in the input file, in SpecEvict
MaxEvictUpdates == 4
\* number of times the clock is seen to advance
MaxTicks == 2
\* number of updates processed, in SpecQuery
MaxQueryUpdates == 2
\* number of updates in the input file, in SpecSweep
MaxSweepUpdates == 3
\* number of updates in the input file, in SpecSteps
MaxStepUpdates == 3
\* number of records in the input file, in SpecFile
MaxFileLen == 2
\* std::uniform_int_distribution<> dis(0, 1000)
MaxDelay == 1000
\* numeric_limits<int>::max() and numeric_limits<int>::min(), of a 32-bit int
IntMax == 2147483647
IntMin == (-IntMax) - 1
\* if (highestTokensForType.size() > 3)
Capacity == 3

\* Identifiers and account types are only compared for equality, so an update that
\* brings a new identifier (a new type) brings the first unused one of these.
IdSeq == <<"a1", "a2", "a3", "a4">>
TypeSeq == <<"user", "admin">>
TokenValues == {100, 200}
RankTokenValues == {100, 200, 300}
Versions == {1, 2}
CallbackTimes == {0}
\* with a delay that callbackTimeMs + getRandomDelay() overflows for some jitter values
LongCallbackTimes == {0, IntMax - 500}
\* the bounds a query is made with; IntMin and IntMax are the defaults of lines 252-253
QueryMins == {IntMin, 100, 200}
QueryMaxs == {100, 200, IntMax}
\* the values of getRandomDelay() that are tried: both ends of its range
Delays == {0, MaxDelay}

\* struct Account (without data)
MkAccount(id, accountType, tokens, callbackTimeMs, version) ==
    [id |-> id, accountType |-> accountType, tokens |-> tokens,
     callbackTimeMs |-> callbackTimeMs, version |-> version]

\* Account(): the default-constructed account
NoAccount == MkAccount("", "", 0, 0, 0)

\* the update records over the first nIds identifiers, the first nTypes types, the
\* token values tokens and the delays cbs
UpdatesWith(nIds, nTypes, tokens, cbs) ==
    { MkAccount(IdSeq[i], TypeSeq[ty], tk, cb, v) :
        i \in 1..nIds, ty \in 1..nTypes, tk \in tokens, cb \in cbs, v \in Versions }

UpdatesOver(nIds, nTypes, tokens) == UpdatesWith(nIds, nTypes, tokens, CallbackTimes)

Range(s) == { s[i] : i \in 1..Len(s) }

\* what names a snapshot in the history of supersessions
Snapshot(a) == <<a.id, a.accountType, a.version>>

\* struct AccountKey
AccountKey(a) == <<a.id, a.version>>

(***************************************************************************)
(* unordered_map                                                           *)
(***************************************************************************)
MapPut(m, k, v) == [x \in (DOMAIN m) \cup {k} |-> IF x = k THEN v ELSE m[x]]

MapErase(m, k) == [x \in (DOMAIN m) \ {k} |-> m[x]]

EmptyMap == [x \in {} |-> 0]

(***************************************************************************)
(* Comparators                                                             *)
(***************************************************************************)
\* AccountTimeComparator: a.first > b.first
AccountTimeComparator(a, b) == a.first > b.first

\* std::less on pair<time_point, Account>, with Account::operator< on tokens
PairLess(a, b) ==
    \/ a.first < b.first
    \/ (~(b.first < a.first) /\ a.second.tokens < b.second.tokens)

\* mutant of AccountTokenComparator: the comparison turned round
AccountTokenComparatorAscending(a1, a2) == a1.tokens < a2.tokens

\* AccountTokenComparator: a1.tokens > a2.tokens
AccountTokenComparator(a1, a2) == a1.tokens > a2.tokens

Comp(kind, a, b) ==
    CASE kind = "time" -> AccountTimeComparator(a, b)
      [] kind = "less" -> PairLess(a, b)
      [] kind = "tokens" -> AccountTokenComparator(a, b)

(***************************************************************************)
(* libstdc++ heap algorithms; hole, top, second are 0-based positions      *)
(***************************************************************************)
RECURSIVE StdPushHeapFrom(_, _, _, _, _)
\* std::__push_heap(first, holeIndex, topIndex, value, comp)
StdPushHeapFrom(kind, s, hole, top, value) ==
    IF hole > top /\ Comp(kind, s[((hole - 1) \div 2) + 1], value)
    THEN StdPushHeapFrom(kind, [s EXCEPT ![hole + 1] = s[((hole - 1) \div 2) + 1]],
                         (hole - 1) \div 2, top, value)
    ELSE [s EXCEPT ![hole + 1] = value]

\* std::push_heap(first, last, comp) on a non-empty range
StdPushHeap(kind, s) ==
    IF Len(s) = 0 THEN s
    ELSE StdPushHeapFrom(kind, s, Len(s) - 1, 0, s[Len(s)])

RECURSIVE StdAdjustLoop(_, _, _, _, _)
\* the while loop of std::__adjust_heap; returns the array and the hole
StdAdjustLoop(kind, s, hole, second, len) ==
    IF second < (len - 1) \div 2
    THEN LET c2 == 2 * (second + 1)
             c  == IF Comp(kind, s[c2 + 1], s[c2]) THEN c2 - 1 ELSE c2
         IN  StdAdjustLoop(kind, [s EXCEPT ![hole + 1] = s[c + 1]], c, c, len)
    ELSE [s |-> s, hole |-> hole, second |-> second]

\* std::__adjust_heap(first, holeIndex, len, value, comp)
StdAdjustHeap(kind, s, holeIndex, len, value) ==
    LET r == StdAdjustLoop(kind, s, holeIndex, holeIndex, len)
        lone == (len % 2 = 0) /\ r.second = (len - 2) \div 2
        c2 == 2 * (r.second + 1)
        s2 == IF lone THEN [r.s EXCEPT ![r.hole + 1] = r.s[c2]] ELSE r.s
        h2 == IF lone THEN c2 - 1 ELSE r.hole
    IN  StdPushHeapFrom(kind, s2, h2, holeIndex, value)

\* std::pop_heap(first, last, comp): the old front ends at the back
StdPopHeap(kind, s) ==
    IF Len(s) <= 1 THEN s
    ELSE LET n == Len(s)
         IN  StdAdjustHeap(kind, [s EXCEPT ![n] = s[1]], 0, n - 1, s[n])

Front(s) == SubSeq(s, 1, Len(s) - 1)

(***************************************************************************)
(* CallbackManager.  An operation returns the set of states it can leave   *)
(* the scheduler in: one state, except where the code reads outside the    *)
(* live range of the vector or through a dangling reference.               *)
(***************************************************************************)
Sched(cb, sp, im, cr) == [callbacks |-> cb, spare |-> sp, indexMap |-> im, crashed |-> cr]

Entry(time, a) == [first |-> time, second |-> a]

Swap(s, i, j) == [s EXCEPT ![i] = s[j], ![j] = s[i]]

\* CallbackManager::updateIndexMap
updateIndexMap(im, a, index) == MapPut(im, a.id, index)

\* The branch of removeAtIndex taken when index is a live position below the last
removeAtIndexInRange(cb, sp, im, index) ==
    LET n   == Len(cb)
        cb1 == Swap(cb, index + 1, n)
        im1 == updateIndexMap(im, cb1[index + 1].second, index)
        cb2 == StdPopHeap("time", cb1)
        cb3 == Front(cb2)
        sp3 == <<cb2[n]>> \o sp
    IN  { Sched(StdPushHeap("time", cb3), sp3, im1, FALSE) }

\* The same branch when index is at or behind callbacks.end(): callbacks[index] is a
\* destroyed element of the vector's storage.  The process is ended, or the bytes of
\* the destroyed element are used as they stand.
removeAtIndexStale(cb, sp, im, index) ==
    LET n == Len(cb)
        j == index - n + 1
    IN  { Sched(cb, sp, im, TRUE) } \cup
        ( IF n >= 1 /\ j <= Len(sp)
          THEN LET cb1 == [cb EXCEPT ![n] = sp[j]]
                   sp1 == [sp EXCEPT ![j] = cb[n]]
                   im1 == updateIndexMap(im, cb[n].second, index)
                   cb2 == StdPopHeap("time", cb1)
                   cb3 == Front(cb2)
                   sp3 == <<cb2[n]>> \o sp1
               IN  { Sched(StdPushHeap("time", cb3), sp3, im1, FALSE) }
          ELSE {} )

\* CallbackManager::removeAtIndex
removeAtIndex(cb, sp, im, index) ==
    IF index # Len(cb) - 1
    THEN IF index < Len(cb)
         THEN removeAtIndexInRange(cb, sp, im, index)
         ELSE removeAtIndexStale(cb, sp, im, index)
    ELSE { Sched(Front(cb), <<cb[Len(cb)]>> \o sp, im, FALSE) }

\* CallbackManager::scheduleCallback
scheduleCallback(cb, sp, im, a, callbackTime) ==
    LET cb1 == Append(cb, Entry(callbackTime, a))
        sp1 == IF sp = <<>> THEN sp ELSE Tail(sp)
        im1 == updateIndexMap(im, a, Len(cb1) - 1)
    IN  Sched(StdPushHeap("time", cb1), sp1, im1, FALSE)

\* CallbackManager::cancelCallback
cancelCallback(cb, sp, im, a) ==
    IF a.id \in DOMAIN im
    THEN removeAtIndex(cb, sp, MapErase(im, a.id), im[a.id])
    ELSE { Sched(cb, sp, im, FALSE) }

\* What indexMap.erase(account.id) erases in fireCallbacks: account refers to
\* callbacks.front().second, read after pop_heap and pop_back.  With elements left it is
\* the new front; with none left the reference dangles, and the id read is the destroyed
\* element's or matches no key.
FireErased(cb3, sp3, im) ==
    IF cb3 # <<>>
    THEN { MapErase(im, cb3[1].second.id) }
    ELSE { MapErase(im, sp3[1].second.id), im }

RECURSIVE fireLoop(_, _, _, _, _)
\* the while loop of CallbackManager::fireCallbacks
fireLoop(cb, sp, im, out, currentTime) ==
    IF cb # <<>> /\ cb[1].first <= currentTime
    THEN LET n   == Len(cb)
             a   == cb[1].second
             cb2 == StdPopHeap("less", cb)
             cb3 == Front(cb2)
             sp3 == <<cb2[n]>> \o sp
         IN  UNION { fireLoop(cb3, sp3, im3, Append(out, <<a.id, a.version>>), currentTime) :
                       im3 \in FireErased(cb3, sp3, im) }
    ELSE { [callbacks |-> cb, spare |-> sp, indexMap |-> im, fired |-> out] }

\* CallbackManager::fireCallbacks
fireCallbacks(cb, sp, im, currentTime) == fireLoop(cb, sp, im, <<>>, currentTime)

(***************************************************************************)
(* std::priority_queue<Account, vector<Account>, AccountTokenComparator>   *)
(***************************************************************************)
PQPush(pq, a) == StdPushHeap("tokens", Append(pq, a))

PQPop(pq) == Front(StdPopHeap("tokens", pq))

RECURSIVE findInQueue(_, _)
\* the search loop of ingestAccountUpdate (lines 296-305): jt when the loop ends
findInQueue(jt, id) ==
    IF jt = <<>> THEN jt
    ELSE IF jt[1].id = id THEN jt
    ELSE findInQueue(PQPop(jt), id)

RECURSIVE drainInto(_, _)
\* while (!pq.empty()) { temp.push(pq.top()); pq.pop(); }
drainInto(pq, temp) ==
    IF pq = <<>> THEN temp ELSE drainInto(PQPop(pq), PQPush(temp, pq[1]))

RECURSIVE insertLoop(_, _, _)
\* the first loop of insertAccountIntoPriorityQueue, then the push and the drain
insertLoop(pq, temp, a) ==
    IF pq # <<>> /\ pq[1].tokens > a.tokens
    THEN insertLoop(PQPop(pq), PQPush(temp, pq[1]), a)
    ELSE drainInto(pq, PQPush(temp, a))

\* AccountManager::insertAccountIntoPriorityQueue
insertAccountIntoPriorityQueue(pq, a) == insertLoop(pq, <<>>, a)

RECURSIVE removeLoop(_, _, _)
\* the first loop of removeAccountFromPriorityQueue, then the pop and the drain
removeLoop(pq, temp, a) ==
    IF pq # <<>> /\ pq[1].id # a.id
    THEN removeLoop(PQPop(pq), PQPush(temp, pq[1]), a)
    ELSE drainInto(PQPop(pq), temp)

\* mutant of removeAccountFromPriorityQueue: the ranked entry is not removed
removeAccountSkipped(pq, a) == pq

\* AccountManager::removeAccountFromPriorityQueue
removeAccountFromPriorityQueue(pq, a) == removeLoop(pq, <<>>, a)

\* mutant of evictOverflow: the size check is off by one
evictOverflowLate(pq) == IF Len(pq) > Capacity + 1 THEN PQPop(pq) ELSE pq

\* the eviction of lines 319-321
evictOverflow(pq) == IF Len(pq) > Capacity THEN PQPop(pq) ELSE pq

(***************************************************************************)
(* AccountIndexer                                                          *)
(***************************************************************************)
\* AccountIndexer::indexAccount
indexAccount(led, a) == MapPut(led, AccountKey(a), a)

\* AccountIndexer::removeAccount
removeAccount(led, a) == MapErase(led, AccountKey(a))

(***************************************************************************)
(* AccountManager::ingestAccountUpdate                                     *)
(***************************************************************************)
\* jt after the search loop: empty when the type has no queue or the id is not in it
foundIn(hta, a) ==
    IF a.accountType \in DOMAIN hta THEN findInQueue(hta[a.accountType], a.id) ELSE <<>>

accountFound(hta, a) == foundIn(hta, a) # <<>>

\* the early return of line 307
rejected(hta, a) == accountFound(hta, a) /\ a.version <= foundIn(hta, a)[1].version

\* the accepted update replaces a ranked entry (lines 309-311 run)
supersedes(hta, a) == accountFound(hta, a) /\ a.version > foundIn(hta, a)[1].version

\* lines 309: the scheduler after the cancellation, if any
afterCancel(hta, cb, sp, im, a) ==
    IF accountFound(hta, a)
    THEN cancelCallback(cb, sp, im, foundIn(hta, a)[1])
    ELSE { Sched(cb, sp, im, FALSE) }

\* lines 310, 315
ledgerAfter(hta, led, a) ==
    indexAccount(IF accountFound(hta, a) THEN removeAccount(led, foundIn(hta, a)[1]) ELSE led, a)

\* lines 311, 317-318: the queue of the update's type before the check of line 319
queueInserted(hta, a) ==
    LET pq0 == IF a.accountType \in DOMAIN hta THEN hta[a.accountType] ELSE <<>>
        pq1 == IF accountFound(hta, a) THEN removeAccountFromPriorityQueue(pq0, a) ELSE pq0
    IN  insertAccountIntoPriorityQueue(pq1, a)

\* lines 311, 317-321: the queue of the update's type
queueAfter(hta, a) == evictOverflow(queueInserted(hta, a))

\* the values chrono::system_clock::now() can return next
ClockReadings == {now} \cup (IF now < MaxTicks * MaxDelay THEN {now + MaxDelay} ELSE {})

\* account.callbackTimeMs + getRandomDelay() of line 323: an int addition, which the
\* build of the Makefile (g++ without optimisation) does in 32 bits; a sum above IntMax
\* wraps round to IntMin
delayMs(a, jitter) ==
    IF a.callbackTimeMs > IntMax - jitter
    THEN IntMin + ((a.callbackTimeMs - (IntMax - jitter)) - 1)
    ELSE a.callbackTimeMs + jitter

\* no call of searchAndFilterAccounts since the last update
NoQuery == [accountType |-> "", minTokens |-> 0, maxTokens |-> 0, result |-> <<>>,
            called |-> FALSE]

\* the history of versions received, after a is received
maxVersionAfter(a) ==
    LET k == <<a.id, a.accountType>>
    IN  IF k \in DOMAIN maxVersion /\ maxVersion[k] >= a.version
        THEN maxVersion
        ELSE MapPut(maxVersion, k, a.version)

\* One call of ingestAccountUpdate(a); delay is the value of getRandomDelay() and t the
\* reading of the clock at line 324
ingestAccountUpdate(a, delay, t) ==
    /\ pc = "ingest"
    /\ ~crashed
    /\ nUpdates' = nUpdates + 1
    /\ account' = a
    /\ fired' = <<>>
    /\ maxVersion' = maxVersionAfter(a)
    /\ filteredAccounts' = NoQuery
    /\ UNCHANGED jtTop
    /\ IF rejected(highestTokenAccounts, a)
       THEN /\ pc' = "fire"
            /\ outcome' = "rejected"
            /\ UNCHANGED <<indexedAccounts, highestTokenAccounts, callbacks, spare,
                           indexMap, now, crashed, evicted, superseded>>
       ELSE \E s1 \in afterCancel(highestTokenAccounts, callbacks, spare, indexMap, a) :
              IF s1.crashed
              THEN /\ crashed' = TRUE
                   /\ UNCHANGED <<indexedAccounts, highestTokenAccounts, callbacks, spare,
                                  indexMap, now, pc, outcome, evicted, superseded>>
              ELSE LET s2 == scheduleCallback(s1.callbacks, s1.spare, s1.indexMap, a,
                                              t + delayMs(a, delay))
                       pq == queueInserted(highestTokenAccounts, a)
                   IN  /\ indexedAccounts' = ledgerAfter(highestTokenAccounts, indexedAccounts, a)
                       /\ highestTokenAccounts' =
                            MapPut(highestTokenAccounts, a.accountType,
                                   queueAfter(highestTokenAccounts, a))
                       /\ callbacks' = s2.callbacks
                       /\ spare' = s2.spare
                       /\ indexMap' = s2.indexMap
                       /\ now' = t
                       /\ pc' = "fire"
                       /\ outcome' = IF supersedes(highestTokenAccounts, a)
                                     THEN "superseded" ELSE "accepted"
                       /\ evicted' = IF Len(pq) > Capacity THEN pq[1] ELSE NoAccount
                       /\ superseded' =
                            IF supersedes(highestTokenAccounts, a)
                            THEN superseded \cup {Snapshot(foundIn(highestTokenAccounts, a)[1])}
                            ELSE superseded
                       /\ UNCHANGED crashed

(***************************************************************************)
(* ingestAccountUpdate taken line by line: the same operators, one call of *)
(* the body per step, so that the states between the calls can be seen     *)
(***************************************************************************)
\* lines 290-308: the search of the queue and the decision
lookupStep(a) ==
    /\ pc = "ingest"
    /\ ~crashed
    /\ nUpdates' = nUpdates + 1
    /\ account' = a
    /\ fired' = <<>>
    /\ maxVersion' = maxVersionAfter(a)
    /\ filteredAccounts' = NoQuery
    /\ IF rejected(highestTokenAccounts, a)
       THEN pc' = "fire" /\ outcome' = "rejected" /\ UNCHANGED jtTop
       ELSE IF supersedes(highestTokenAccounts, a)
       THEN /\ pc' = "l309"
            /\ outcome' = "superseded"
            /\ jtTop' = foundIn(highestTokenAccounts, a)[1]
       ELSE pc' = "l315" /\ outcome' = "accepted" /\ UNCHANGED jtTop
    /\ UNCHANGED <<indexedAccounts, highestTokenAccounts, callbacks, spare, indexMap,
                   now, crashed, evicted, superseded>>

\* line 309: callbackManager.cancelCallback(jt.top())
cancelCallbackStep ==
    /\ pc = "l309"
    /\ ~crashed
    /\ \E s1 \in cancelCallback(callbacks, spare, indexMap, jtTop) :
         IF s1.crashed
         THEN crashed' = TRUE /\ UNCHANGED <<callbacks, spare, indexMap, pc>>
         ELSE /\ callbacks' = s1.callbacks
              /\ spare' = s1.spare
              /\ indexMap' = s1.indexMap
              /\ pc' = "l310"
              /\ UNCHANGED crashed
    /\ UNCHANGED <<indexedAccounts, highestTokenAccounts, now, account, fired, nUpdates,
                   outcome, evicted, maxVersion, superseded, filteredAccounts, jtTop>>

\* line 310: accountIndexer.removeAccount(jt.top())
removeAccountStep ==
    /\ pc = "l310"
    /\ indexedAccounts' = removeAccount(indexedAccounts, jtTop)
    /\ pc' = "l311"
    /\ UNCHANGED <<highestTokenAccounts, callbacks, spare, indexMap, now, account, fired,
                   crashed, nUpdates, outcome, evicted, maxVersion, superseded,
                   filteredAccounts, jtTop>>

\* line 311: tokenAccounts = removeAccountFromPriorityQueue(tokenAccounts, account)
removeRankedStep ==
    /\ pc = "l311"
    /\ highestTokenAccounts' =
         MapPut(highestTokenAccounts, account.accountType,
                removeAccountFromPriorityQueue(highestTokenAccounts[account.accountType],
                                               account))
    /\ pc' = "l315"
    /\ UNCHANGED <<indexedAccounts, callbacks, spare, indexMap, now, account, fired,
                   crashed, nUpdates, outcome, evicted, maxVersion, superseded,
                   filteredAccounts, jtTop>>

\* line 315: accountIndexer.indexAccount(account)
indexAccountStep ==
    /\ pc = "l315"
    /\ indexedAccounts' = indexAccount(indexedAccounts, account)
    /\ pc' = "l317"
    /\ UNCHANGED <<highestTokenAccounts, callbacks, spare, indexMap, now, account, fired,
                   crashed, nUpdates, outcome, evicted, maxVersion, superseded,
                   filteredAccounts, jtTop>>

\* lines 317-321: the insertion into the queue of the type, and the eviction
insertRankedStep ==
    /\ pc = "l317"
    /\ LET pq0 == IF account.accountType \in DOMAIN highestTokenAccounts
                  THEN highestTokenAccounts[account.accountType] ELSE <<>>
           pq  == insertAccountIntoPriorityQueue(pq0, account)
       IN  /\ highestTokenAccounts' =
                MapPut(highestTokenAccounts, account.accountType, evictOverflow(pq))
           /\ evicted' = IF Len(pq) > Capacity THEN pq[1] ELSE NoAccount
    /\ pc' = "l323"
    /\ UNCHANGED <<indexedAccounts, callbacks, spare, indexMap, now, account, fired,
                   crashed, nUpdates, outcome, maxVersion, superseded,
                   filteredAccounts, jtTop>>

\* lines 323-325: the delay, the clock reading t and scheduleCallback
scheduleCallbackStep(delay, t) ==
    /\ pc = "l323"
    /\ LET s2 == scheduleCallback(callbacks, spare, indexMap, account,
                                  t + delayMs(account, delay))
       IN  /\ callbacks' = s2.callbacks
           /\ spare' = s2.spare
           /\ indexMap' = s2.indexMap
    /\ now' = t
    /\ superseded' = IF jtTop # NoAccount THEN superseded \cup {Snapshot(jtTop)}
                                          ELSE superseded
    /\ pc' = "fire"
    /\ UNCHANGED <<indexedAccounts, highestTokenAccounts, account, fired, crashed,
                   nUpdates, outcome, evicted, maxVersion, filteredAccounts, jtTop>>

\* mutant of fireCallbacksStep: the sweep also removes the fired accounts from the
\* Ledger
fireCallbacksPurges(t) ==
    /\ pc = "fire"
    /\ ~crashed
    /\ \E o \in fireCallbacks(callbacks, spare, indexMap, t) :
         /\ callbacks' = o.callbacks
         /\ spare' = o.spare
         /\ indexMap' = o.indexMap
         /\ fired' = o.fired
         /\ indexedAccounts' =
              [k \in DOMAIN indexedAccounts \ Range(o.fired) |-> indexedAccounts[k]]
    /\ now' = t
    /\ pc' = "ingest"
    /\ account' = NoAccount
    /\ outcome' = "none"
    /\ evicted' = NoAccount
    /\ jtTop' = NoAccount
    /\ UNCHANGED <<highestTokenAccounts, crashed, nUpdates, maxVersion,
                   superseded, filteredAccounts, jsonAccounts, accountUpdates>>

\* The sweep of line 237: callbackManager.fireCallbacks(chrono::system_clock::now())
fireCallbacksStep(t) ==
    /\ pc = "fire"
    /\ ~crashed
    /\ \E o \in fireCallbacks(callbacks, spare, indexMap, t) :
         /\ callbacks' = o.callbacks
         /\ spare' = o.spare
         /\ indexMap' = o.indexMap
         /\ fired' = o.fired
    /\ now' = t
    /\ pc' = "ingest"
    /\ account' = NoAccount
    /\ outcome' = "none"
    /\ evicted' = NoAccount
    /\ jtTop' = NoAccount
    /\ UNCHANGED <<indexedAccounts, highestTokenAccounts, crashed, nUpdates, maxVersion,
                   superseded, filteredAccounts, jsonAccounts, accountUpdates>>

(***************************************************************************)
(* AccountManager::processAccountUpdates on a file                         *)
(***************************************************************************)
\* an element of jsonAccounts: a record with every field of its type, or one with a
\* required field of another type
WellFormed(a) == [wellFormed |-> TRUE, account |-> a]

Malformed == [wellFormed |-> FALSE, account |-> NoAccount]

\* AccountManager::parseAccountUpdate: the conversions of lines 276-281 throw
\* json::type_error on a field of another type (on a missing key the const operator[]
\* fails the library's assertion, and the process ends at that point as well)
parseAccountUpdate(accountJson) ==
    IF accountJson.wellFormed
    THEN [thrown |-> FALSE, account |-> accountJson.account]
    ELSE [thrown |-> TRUE, account |-> NoAccount]

\* lines 210-227: the file is read and parsed as a JSON array
readFile(file) ==
    /\ pc = "ingest"
    /\ ~crashed
    /\ jsonAccounts = <<>>
    /\ nUpdates = 0
    /\ jsonAccounts' = file
    /\ pc' = "parse"
    /\ UNCHANGED <<indexedAccounts, highestTokenAccounts, callbacks, spare, indexMap,
                   now, account, fired, crashed, nUpdates, outcome, evicted,
                   maxVersion, superseded, filteredAccounts, accountUpdates, jtTop>>

\* The loop of lines 229-233.  Nothing between parseAccountUpdate and main catches
\* json::type_error (line 221 catches json::parse_error only): the exception leaves
\* processAccountUpdates before the loop of line 235 starts, and ends the process.
parseAccountUpdates ==
    /\ pc = "parse"
    /\ ~crashed
    /\ IF \E i \in 1..Len(jsonAccounts) : parseAccountUpdate(jsonAccounts[i]).thrown
       THEN /\ crashed' = TRUE
            /\ outcome' = "thrown"
            /\ UNCHANGED <<pc, accountUpdates>>
       ELSE /\ accountUpdates' =
                 [i \in 1..Len(jsonAccounts) |-> parseAccountUpdate(jsonAccounts[i]).account]
            /\ pc' = "ingest"
            /\ UNCHANGED <<crashed, outcome>>
    /\ UNCHANGED <<indexedAccounts, highestTokenAccounts, callbacks, spare, indexMap,
                   now, account, fired, nUpdates, evicted, maxVersion, superseded,
                   filteredAccounts, jsonAccounts, jtTop>>

(***************************************************************************)
(* AccountManager::searchAndFilterAccounts                                 *)
(***************************************************************************)
\* the orders in which the loop of line 256 can visit the keys of the unordered_map
KeyOrders(led) ==
    { keys \in [1..Cardinality(DOMAIN led) -> DOMAIN led] :
        \A i, j \in DOMAIN keys : keys[i] = keys[j] => i = j }

RECURSIVE searchLoopExclusive(_, _, _, _, _, _)
\* mutant of searchLoop: the lower bound is compared with <=
searchLoopExclusive(led, keys, accountType, minTokens, maxTokens, out) ==
    IF keys = <<>> THEN out
    ELSE LET acc == led[Head(keys)]
         IN  IF accountType # "" /\ acc.accountType # accountType
             THEN searchLoopExclusive(led, Tail(keys), accountType, minTokens, maxTokens, out)
             ELSE IF acc.tokens <= minTokens \/ acc.tokens > maxTokens
             THEN searchLoopExclusive(led, Tail(keys), accountType, minTokens, maxTokens, out)
             ELSE searchLoopExclusive(led, Tail(keys), accountType, minTokens, maxTokens,
                                      Append(out, acc))

RECURSIVE searchLoop(_, _, _, _, _, _)
\* the loop of lines 256-265 over the keys still to visit; out is filteredAccounts
searchLoop(led, keys, accountType, minTokens, maxTokens, out) ==
    IF keys = <<>> THEN out
    ELSE LET acc == led[Head(keys)]
         IN  IF accountType # "" /\ acc.accountType # accountType
             THEN searchLoop(led, Tail(keys), accountType, minTokens, maxTokens, out)
             ELSE IF acc.tokens < minTokens \/ acc.tokens > maxTokens
             THEN searchLoop(led, Tail(keys), accountType, minTokens, maxTokens, out)
             ELSE searchLoop(led, Tail(keys), accountType, minTokens, maxTokens,
                             Append(out, acc))

\* mutant of searchAndFilterAccounts: an account with tokens = minTokens is left out
searchAndFilterExclusive(led, keys, accountType, minTokens, maxTokens) ==
    searchLoopExclusive(led, keys, accountType, minTokens, maxTokens, <<>>)

\* AccountManager::searchAndFilterAccounts, visiting the keys in the order keys
searchAndFilterAccounts(led, keys, accountType, minTokens, maxTokens) ==
    searchLoop(led, keys, accountType, minTokens, maxTokens, <<>>)

\* One call of searchAndFilterAccounts, made when no update is being processed
searchAndFilterAccountsStep(accountType, minTokens, maxTokens) ==
    /\ pc = "ingest"
    /\ ~crashed
    /\ \E keys \in KeyOrders(indexedAccounts) :
         filteredAccounts' =
            [accountType |-> accountType, minTokens |-> minTokens, maxTokens |-> maxTokens,
             result |-> searchAndFilterAccounts(indexedAccounts, keys, accountType,
                                                minTokens, maxTokens),
             called |-> TRUE]
    /\ UNCHANGED <<indexedAccounts, highestTokenAccounts, callbacks, spare, indexMap,
                   now, account, fired, crashed, pc, nUpdates, outcome, evicted,
                   maxVersion, superseded, jsonAccounts, accountUpdates, jtTop>>

Init ==
    /\ indexedAccounts = EmptyMap
    /\ highestTokenAccounts = EmptyMap
    /\ callbacks = <<>>
    /\ spare = <<>>
    /\ indexMap = EmptyMap
    /\ now = 0
    /\ account = NoAccount
    /\ fired = <<>>
    /\ crashed = FALSE
    /\ pc = "ingest"
    /\ nUpdates = 0
    /\ outcome = "none"
    /\ evicted = NoAccount
    /\ maxVersion = EmptyMap
    /\ superseded = {}
    /\ filteredAccounts = NoQuery
    /\ jsonAccounts = <<>>
    /\ accountUpdates = <<>>
    /\ jtTop = NoAccount

\* the identifiers and types seen so far, and the next unused one of each
SeenIds == { k[1] : k \in DOMAIN indexedAccounts }

SeenTypes == DOMAIN highestTokenAccounts

InOrder(a) ==
    /\ \E i \in 1..Len(IdSeq) : a.id = IdSeq[i] /\ i <= Cardinality(SeenIds) + 1
    /\ \E i \in 1..Len(TypeSeq) : a.accountType = TypeSeq[i] /\ i <= Cardinality(SeenTypes) + 1

\* The loop of processAccountUpdates over a file of at most MaxUpdates records
Ingest ==
    \E a \in UpdatesOver(3, 2, TokenValues), delay \in Delays, t \in ClockReadings :
        /\ nUpdates < MaxUpdates
        /\ InOrder(a)
        /\ ingestAccountUpdate(a, delay, t)
        /\ UNCHANGED <<jsonAccounts, accountUpdates>>

Fire == \E t \in ClockReadings : fireCallbacksStep(t)

Next == Ingest \/ Fire

Spec == Init /\ [][Next]_vars

\* The same loop over a file of at most MaxRankUpdates records of one account type,
\* with four identifiers, the clock standing still and nothing due
IngestRanking ==
    \E a \in UpdatesOver(4, 1, RankTokenValues) :
        /\ nUpdates < MaxRankUpdates
        /\ InOrder(a)
        /\ ingestAccountUpdate(a, MaxDelay, now)
        /\ UNCHANGED <<jsonAccounts, accountUpdates>>

FireRanking == fireCallbacksStep(now)

NextRanking == IngestRanking \/ FireRanking

SpecRanking == Init /\ [][NextRanking]_vars

\* The same loop over the same records of one account type, for a file of at most
\* MaxEvictUpdates records: enough for a ranking to overflow
IngestEvict ==
    \E a \in UpdatesOver(4, 1, RankTokenValues) :
        /\ nUpdates < MaxEvictUpdates
        /\ InOrder(a)
        /\ ingestAccountUpdate(a, MaxDelay, now)
        /\ UNCHANGED <<jsonAccounts, accountUpdates>>

NextEvict == IngestEvict \/ FireRanking

SpecEvict == Init /\ [][NextEvict]_vars

\* The loop over a file of at most MaxSweepUpdates records of one account type and two
\* identifiers, with the clock advancing and both ends of the jitter
IngestSweep ==
    \E a \in UpdatesOver(2, 1, TokenValues), delay \in Delays, t \in ClockReadings :
        /\ nUpdates < MaxSweepUpdates
        /\ InOrder(a)
        /\ ingestAccountUpdate(a, delay, t)
        /\ UNCHANGED <<jsonAccounts, accountUpdates>>

NextSweep == IngestSweep \/ Fire

SpecSweep == Init /\ [][NextSweep]_vars

\* The loop over a file of at most MaxQueryUpdates records, the clock standing still and
\* nothing due, and calls of searchAndFilterAccounts once the file is processed
IngestQuery ==
    \E a \in UpdatesOver(2, 2, TokenValues) :
        /\ nUpdates < MaxQueryUpdates
        /\ InOrder(a)
        /\ ingestAccountUpdate(a, MaxDelay, now)
        /\ UNCHANGED <<jsonAccounts, accountUpdates>>

Query ==
    \E accountType \in {""} \cup Range(TypeSeq), minTokens \in QueryMins,
       maxTokens \in QueryMaxs :
        searchAndFilterAccountsStep(accountType, minTokens, maxTokens)

NextQuery == IngestQuery \/ FireRanking \/ Query

SpecQuery == Init /\ [][NextQuery]_vars

\* processAccountUpdates on a file of at most MaxFileLen records, some of them
\* malformed, some with a long delay; the clock stands still
JsonRecords ==
    { WellFormed(a) : a \in UpdatesWith(2, 1, {100}, LongCallbackTimes) } \cup {Malformed}

Files == UNION { [1..n -> JsonRecords] : n \in 1..MaxFileLen }

ReadFile == \E file \in Files : readFile(file)

IngestFile ==
    \E delay \in Delays :
        /\ accountUpdates # <<>>
        /\ ingestAccountUpdate(Head(accountUpdates), delay, now)
        /\ accountUpdates' = Tail(accountUpdates)
        /\ UNCHANGED jsonAccounts

NextFile == ReadFile \/ parseAccountUpdates \/ IngestFile \/ FireRanking

SpecFile == Init /\ [][NextFile]_vars

\* The loop over a file of at most MaxStepUpdates records, each call of
\* ingestAccountUpdate taken line by line; the clock stands still and nothing is due
Lookup ==
    \E a \in UpdatesOver(3, 2, {100}) :
        /\ nUpdates < MaxStepUpdates
        /\ InOrder(a)
        /\ lookupStep(a)
        /\ UNCHANGED <<jsonAccounts, accountUpdates>>

Supersede ==
    /\ cancelCallbackStep \/ removeAccountStep \/ removeRankedStep
    /\ UNCHANGED <<jsonAccounts, accountUpdates>>

Accept ==
    /\ indexAccountStep \/ insertRankedStep \/ scheduleCallbackStep(MaxDelay, now)
    /\ UNCHANGED <<jsonAccounts, accountUpdates>>

NextSteps == Lookup \/ Supersede \/ Accept \/ FireRanking

SpecSteps == Init /\ [][NextSteps]_vars

(***************************************************************************)
(* Properties                                                              *)
(***************************************************************************)
\* the versions the Ledger holds for an identifier
LedgerVersions(id) == { k[2] : k \in { x \in DOMAIN indexedAccounts : x[1] = id } }

\* the ranked entries of an identifier in the queue of a type
RankedEntries(ty, id) ==
    IF ty \in DOMAIN highestTokenAccounts
    THEN { e \in Range(highestTokenAccounts[ty]) : e.id = id }
    ELSE {}

\* the pending notifications, and those of an identifier
Pending == Range(callbacks)

PendingOf(id) == { e \in Pending : e.second.id = id }

\* this step is a call of ingestAccountUpdate that returned
IngestReturns == pc = "ingest" /\ pc' = "fire"

\* C1: the Ledger never holds two keys (id, v1) and (id, v2) with v1 # v2.
C1_OneLedgerEntryPerId ==
    \A k1, k2 \in DOMAIN indexedAccounts : k1[1] = k2[1] => k1 = k2

\* C2: for an identifier whose updates were all received under one account type, the
\* Ledger holds exactly the highest version received, and no older one.
C2_LedgerHoldsMaxVersion ==
    \A k \in DOMAIN maxVersion :
        (\A k2 \in DOMAIN maxVersion : k2[1] = k[1] => k2 = k)
            => LedgerVersions(k[1]) = {maxVersion[k]}

\* C3: a call of ingestAccountUpdate with an update whose version is at most the
\* version the Ledger holds for its identifier changes neither the Ledger, nor the
\* ranking, nor the heap of callbacks, nor the index map.
C3_StaleUpdateChangesNothing ==
    [][ (IngestReturns /\ \E v \in LedgerVersions(account'.id) : account'.version <= v)
            => UNCHANGED <<indexedAccounts, highestTokenAccounts, callbacks, indexMap>> ]_vars

\* C4: the ranking of every account type holds at most Capacity = 3 entries.
C4_RankingWithinCapacity ==
    \A ty \in DOMAIN highestTokenAccounts : Len(highestTokenAccounts[ty]) <= Capacity

\* C4 witness: a ranking is full and the Ledger holds more accounts of its type than
\* the ranking does, so an insertion overflowed and an entry was evicted.
C4_Witness ==
    \E ty \in DOMAIN highestTokenAccounts :
        /\ Len(highestTokenAccounts[ty]) = Capacity
        /\ Cardinality({ k \in DOMAIN indexedAccounts :
                           indexedAccounts[k].accountType = ty }) > Capacity

\* C5: no two entries of the ranking of an account type share an identifier.
C5_NoDuplicateRankedIds ==
    \A ty \in DOMAIN highestTokenAccounts :
        \A i, j \in 1..Len(highestTokenAccounts[ty]) :
            highestTokenAccounts[ty][i].id = highestTokenAccounts[ty][j].id => i = j

\* C5 witness: a superseding update has just replaced the ranked entry of its
\* identifier, in a ranking that holds another identifier too.
C5_Witness ==
    /\ outcome = "superseded"
    /\ account \in Range(highestTokenAccounts[account.accountType])
    /\ Len(highestTokenAccounts[account.accountType]) >= 2

\* C6: when the ranking of the update's type holds Capacity entries, none of them of
\* the update's identifier, the call evicts exactly one entry of the four, one with
\* the lowest tokens, and the ranking holds the other three afterwards.
C6_EvictsLowestTokens ==
    [][ LET a   == account'
            ty  == a.accountType
            old == IF ty \in DOMAIN highestTokenAccounts
                   THEN Range(highestTokenAccounts[ty]) ELSE {}
        IN  (IngestReturns /\ Cardinality(old) = Capacity /\ RankedEntries(ty, a.id) = {})
              => /\ Len(highestTokenAccounts'[ty]) = Capacity
                 /\ \E e \in old \cup {a} :
                      /\ Range(highestTokenAccounts'[ty]) = (old \cup {a}) \ {e}
                      /\ \A x \in old \cup {a} : e.tokens <= x.tokens ]_vars

\* C6 witness: the last call evicted an entry that is not the account it inserted, and
\* the entries kept do not all have the same tokens.
C6_Witness ==
    /\ evicted # NoAccount
    /\ evicted # account
    /\ account \in Range(highestTokenAccounts[account.accountType])
    /\ \E x \in Range(highestTokenAccounts[account.accountType]) : x.tokens > evicted.tokens

\* C7: every ranked entry has a Ledger entry with the same (id, version) key.
C7_RankedEntryInLedger ==
    \A ty \in DOMAIN highestTokenAccounts :
        \A e \in Range(highestTokenAccounts[ty]) : AccountKey(e) \in DOMAIN indexedAccounts

\* C8: the heap of callbacks holds at most one pending notification per identifier.
C8_OnePendingPerId ==
    \A i, j \in 1..Len(callbacks) :
        callbacks[i].second.id = callbacks[j].second.id => i = j

\* C9: a superseding update whose old notification is pending cancels that one and
\* schedules one for the new version: the pending notifications of every other
\* identifier are unchanged, the identifier has exactly one, of the new version, and
\* the number of pending notifications is unchanged.
C9_SupersessionCancelsOneSchedulesOne ==
    [][ LET a   == account'
            old == RankedEntries(a.accountType, a.id)
        IN  ( /\ IngestReturns
              /\ \E r \in old : a.version > r.version
              /\ \E r \in old : \E e \in PendingOf(a.id) : e.second = r )
              => /\ Range(callbacks') \ { e \in Range(callbacks') : e.second.id = a.id }
                      = Pending \ PendingOf(a.id)
                 /\ \E e \in Range(callbacks') :
                      /\ e.second = a
                      /\ { x \in Range(callbacks') : x.second.id = a.id } = {e}
                 /\ Len(callbacks') = Len(callbacks) ]_vars

\* C10: cancelCallback for an identifier with a pending notification removes exactly
\* that identifier's entry from the heap, wherever it sits, and keeps every other
\* entry.  Stated for the call of line 309, on the state it is made in.
C10_CancelRemovesExactlyTheEntry ==
    [][ LET a   == account'
            old == RankedEntries(a.accountType, a.id)
        IN  ( /\ pc = "ingest"
              /\ \E r \in old : a.version > r.version
              /\ Cardinality(PendingOf(a.id)) = 1 )
              => \A r \in old :
                   \A s \in cancelCallback(callbacks, spare, indexMap, r) :
                      /\ ~s.crashed
                      /\ Len(s.callbacks) = Len(callbacks) - 1
                      /\ Range(s.callbacks) = Pending \ PendingOf(a.id) ]_vars

\* C11: cancelCallback for an identifier with no pending notification changes nothing
\* and makes no access outside the heap: the heap is left as it was and the process
\* goes on.  Stated for the call of line 309, on the state it is made in.
C11_CancelAbsentIsNoOp ==
    [][ LET a   == account'
            old == RankedEntries(a.accountType, a.id)
        IN  ( /\ pc = "ingest"
              /\ \E r \in old : a.version > r.version
              /\ PendingOf(a.id) = {} )
              => \A r \in old :
                   \A s \in cancelCallback(callbacks, spare, indexMap, r) :
                      /\ ~s.crashed
                      /\ s.callbacks = callbacks ]_vars

\* this step is a sweep of fireCallbacks
FireReturns == pc = "fire" /\ pc' = "ingest"

\* the <<id, version>> a notification carries
Carried(e) == <<e.second.id, e.second.version>>

\* C12: a sweep fireCallbacks(t) removes and emits exactly the pending notifications
\* whose time is <= t, each with the id and version it was scheduled for: the ones with
\* a later time, and only those, are pending afterwards.
C12_FiresExactlyTheDue ==
    [][ FireReturns =>
          LET due == { e \in Pending : e.first <= now' }
          IN  /\ Range(callbacks') = Pending \ due
              /\ Range(fired') = { Carried(e) : e \in due }
              /\ Len(callbacks') + Len(fired') = Len(callbacks) ]_vars

\* the number of notifications carrying k in a heap array
CarriedCount(s, k) == Cardinality({ i \in 1..Len(s) : Carried(s[i]) = k })

\* C13: once a snapshot has been superseded by a higher version, no later sweep emits
\* the notification scheduled for it; and a sweep emits a notification once, each
\* emission taking one notification of that id and version out of the heap.
C13_SupersededNeverFires ==
    [][ FireReturns =>
          /\ \A e \in Pending :
                Snapshot(e.second) \in superseded
                  => CarriedCount(callbacks', Carried(e)) = CarriedCount(callbacks, Carried(e))
          /\ \A k \in Range(fired') \cup { Carried(e) : e \in Pending } :
                Cardinality({ i \in 1..Len(fired') : fired'[i] = k })
                  = CarriedCount(callbacks, k) - CarriedCount(callbacks', k) ]_vars

\* the Ledger snapshots a query for (accountType, minTokens, maxTokens) is to return
Matching(accountType, minTokens, maxTokens) ==
    { indexedAccounts[k] : k \in
        { x \in DOMAIN indexedAccounts :
            /\ (accountType = "" \/ indexedAccounts[x].accountType = accountType)
            /\ minTokens <= indexedAccounts[x].tokens
            /\ indexedAccounts[x].tokens <= maxTokens } }

\* C14: a sweep of fireCallbacks leaves the Ledger and the ranking of every account
\* type as they were, whatever it fires.
C14_FireChangesOnlyScheduler ==
    [][ FireReturns => UNCHANGED <<indexedAccounts, highestTokenAccounts>> ]_vars

\* C14 witness: a sweep has just fired two notifications, of accounts that the Ledger
\* and a ranking hold.
C14_Witness ==
    /\ pc = "ingest"
    /\ Len(fired) >= 2
    /\ \A k \in Range(fired) :
          /\ k \in DOMAIN indexedAccounts
          /\ \E ty \in DOMAIN highestTokenAccounts :
                \E e \in Range(highestTokenAccounts[ty]) : AccountKey(e) = k

\* C15: searchAndFilterAccounts returns each Ledger snapshot that is of the account
\* type asked for (any type when it is empty) and has minTokens <= tokens <= maxTokens,
\* once each, and nothing else; the Ledger is as it was.
C15_QueryReturnsExactlyMatching ==
    filteredAccounts.called =>
        /\ Range(filteredAccounts.result)
              = Matching(filteredAccounts.accountType, filteredAccounts.minTokens,
                         filteredAccounts.maxTokens)
        /\ Len(filteredAccounts.result) = Cardinality(Range(filteredAccounts.result))

\* C15 witness: a query with both bounds given, the lower one equal to the tokens of an
\* account it returns, has returned some accounts of the Ledger and left out others.
C15_Witness ==
    /\ filteredAccounts.called
    /\ filteredAccounts.accountType # ""
    /\ filteredAccounts.minTokens # IntMin
    /\ filteredAccounts.maxTokens # IntMax
    /\ \E e \in Range(filteredAccounts.result) : e.tokens = filteredAccounts.minTokens
    /\ Cardinality(DOMAIN indexedAccounts) > Len(filteredAccounts.result)

\* C16: an accepted update is scheduled with a time between now + callbackTimeMs and
\* now + callbackTimeMs + MaxDelay, now being the clock reading of line 324, for every
\* value of getRandomDelay().
C16_FireTimeWithinJitter ==
    [][ (IngestReturns /\ outcome' \in {"accepted", "superseded"})
          => \E i \in 1..Len(callbacks') :
                /\ callbacks'[i].second = account'
                /\ callbacks'[i].first - now' >= account'.callbackTimeMs
                /\ (callbacks'[i].first - now') - account'.callbackTimeMs <= MaxDelay ]_vars

\* the well-formed records of the file
WellFormedRecords == { i \in 1..Len(jsonAccounts) : jsonAccounts[i].wellFormed }

\* processAccountUpdates has returned, or the process has ended
RunEnded ==
    /\ jsonAccounts # <<>>
    /\ crashed \/ (pc = "ingest" /\ accountUpdates = <<>>)

\* C17: when the run over a file with a malformed record has ended, every well-formed
\* record of the file, before and after the malformed one, has been passed to
\* ingestAccountUpdate.
C17_MalformedRejectedAlone ==
    (RunEnded /\ WellFormedRecords # 1..Len(jsonAccounts))
        => nUpdates = Cardinality(WellFormedRecords)

\* C18: the array of callbacks is a min-heap on the time: no entry has a time below
\* its parent's, so the front has the lowest time of all.
C18_CallbacksIsMinHeap ==
    \A i \in 2..Len(callbacks) : callbacks[i].first >= callbacks[i \div 2].first

\* C19: indexMap has an entry for an identifier exactly when a notification of that
\* identifier is pending, and the entry is the position of that notification.
C19_IndexMapIsExact ==
    /\ DOMAIN indexMap = { e.second.id : e \in Pending }
    /\ \A id \in DOMAIN indexMap :
          /\ indexMap[id] < Len(callbacks)
          /\ callbacks[indexMap[id] + 1].second.id = id

\* C20: a pending notification stays pending while updates of other identifiers are
\* processed, whatever they cancel, and a sweep whose time has reached its time emits
\* it: so the sweeps, once they reach that time, fire it unless its own identifier
\* was updated before.
C20_PendingUntilFired ==
    [][ /\ IngestReturns =>
              \A e \in Pending :
                 e.second.id # account'.id
                    => CarriedCount(callbacks', Carried(e)) >= CarriedCount(callbacks, Carried(e))
        /\ FireReturns =>
              \A e \in Pending : e.first <= now' => Carried(e) \in Range(fired') ]_vars

\* a call of ingestAccountUpdate that supersedes jtTop is under way, or has just returned
Superseding == jtTop # NoAccount

\* C21: while an update supersedes an older snapshot of its identifier, from the
\* lookup to the return of the call, the old and the new snapshot are never both in
\* the Ledger, nor both in the ranking of the type, nor both pending notifications:
\* each removal of the old one has taken effect before the insertion of the new one.
C21_OldAndNewNeverCoexist ==
    Superseding =>
        /\ ~(\E k1, k2 \in DOMAIN indexedAccounts :
                 indexedAccounts[k1] = jtTop /\ indexedAccounts[k2] = account)
        /\ ~(jtTop \in Range(highestTokenAccounts[account.accountType])
               /\ account \in Range(highestTokenAccounts[account.accountType]))
        /\ ~(\E e1, e2 \in Pending : e1.second = jtTop /\ e2.second = account)

====
